---- MODULE Spec2Model ----
(***************************************************************************)
(* A model of the Round class of bl_classes.py (Battle Line): dealing,     *)
(* troop placement, formation classification, best-continuation search,    *)
(* flag adjudication and the round outcome.                                *)
(*                                                                         *)
(* A card is the Python two-character string, kept as the pair of its      *)
(* characters <<c0, c1>>: '7r' is <<"7", "r">>, so card[1] here is the     *)
(* code's card[0] and card[2] the code's card[1].  Python lists are        *)
(* sequences, player and flag indices stay 0-based.                        *)
(***************************************************************************)
EXTENDS Integers, Sequences, FiniteSets, TLC

VARIABLES
    h,          \* self.h[p].cards: each player's hand
    decks,      \* self.decks: 'troop' and 'tactics' draw piles (top = last)
    cardsLeft,  \* self.cardsLeft: the unplayed cards
    flags,      \* self.flags
    best,       \* self.best: best formation reachable at an empty flag
    whoseTurn,  \* self.whoseTurn
    winner,     \* the round's winner, as check_winner last returned it
    err,        \* the exception that ended the round, "none" while it runs
    pc,         \* where the turn loop stands
    lastPlay,   \* the play the turn loop is processing
    plan,       \* each player's remaining intended plays (the play source)
    probe       \* argument and result of a function applied on its own

vars == <<h, decks, cardsLeft, flags, best, whoseTurn, winner, err, pc,
          lastPlay, plan, probe>>

(***************************************************************************)
(* Module constants of bl_classes.py                                       *)
(***************************************************************************)
N_FLAGS == 9
STANDARD_WIN == 5
BREAKTHROUGH_WIN == 3
FORMATION_SIZE == 3
TROOP_SUITS == <<"r", "o", "y", "g", "b", "p">>
TROOP_CONTENTS == <<"0", "1", "2", "3", "4", "5", "6", "7", "8", "9">>
TACTICS == <<"Al", "Co", "Da", "De", "Fo", "Mu", "Re", "Sc", "Sh", "Tr">>
HAND_SIZE == 7
POKER_HIERARCHY == <<"straight flush", "triple", "flush", "straight", "sum">>
\* EPSILON = 0.1: compare_formations sees strengths in units of EPSILON, so
\* that strength - EPSILON stays an integer (10 * strength - 1).
EPSILON_INV == 10

\* Python's None (kept apart from every player index and formation)
None == -1

Players == {0, 1}
FlagIds == 0 .. (N_FLAGS - 1)

(***************************************************************************)
(* Python built-ins on lists and characters                                *)
(***************************************************************************)
Range(s) == {s[i] : i \in DOMAIN s}

RECURSIVE SumSeq(_)
SumSeq(s) == IF s = <<>> THEN 0 ELSE Head(s) + SumSeq(Tail(s))

\* list.count(x)
Count(s, x) == Cardinality({i \in DOMAIN s : s[i] = x})

\* list.index(x), 0-based
IndexOf(s, x) == (CHOOSE i \in DOMAIN s : s[i] = x /\ \A j \in 1 .. (i - 1) : s[j] # x) - 1

\* list.remove(x): drops the first occurrence (the caller checks x is present)
RemoveFirst(s, x) ==
    LET i == IndexOf(s, x) + 1
    IN  [j \in 1 .. (Len(s) - 1) |-> IF j < i THEN s[j] ELSE s[j + 1]]

ReverseSeq(s) == [i \in 1 .. Len(s) |-> s[Len(s) + 1 - i]]

\* s[:n]
Take(s, n) == [i \in 1 .. (IF n < Len(s) THEN n ELSE Len(s)) |-> s[i]]

Max2(a, b) == IF a >= b THEN a ELSE b
Min2(a, b) == IF a <= b THEN a ELSE b

\* int(c) of a digit character, and str(n) of a one-digit number
int(c) == (CHOOSE i \in DOMAIN TROOP_CONTENTS : TROOP_CONTENTS[i] = c) - 1
str(n) == TROOP_CONTENTS[n + 1]

\* The order of the characters the troop cards are made of (digits before
\* letters, letters alphabetically), as Python compares strings.
CharOrder == <<"0", "1", "2", "3", "4", "5", "6", "7", "8", "9",
               "b", "g", "o", "p", "r", "y">>
Ord(c) == CHOOSE i \in DOMAIN CharOrder : CharOrder[i] = c

\* sorted() of a list of characters (stable, ascending)
SortedChars(s) ==
    LET pos(i) == Cardinality({j \in DOMAIN s : Ord(s[j]) < Ord(s[i])})
                  + Cardinality({j \in 1 .. (i - 1) : Ord(s[j]) = Ord(s[i])}) + 1
    IN  [p \in DOMAIN s |-> s[CHOOSE i \in DOMAIN s : pos(i) = p]]

\* The card as the string the code holds, for comparison with other strings
CardStr(card) == card[1] \o card[2]

\* The troop deck in the order generate_decks_and_deal_hands builds it
TroopDeck ==
    [i \in 1 .. (Len(TROOP_SUITS) * Len(TROOP_CONTENTS)) |->
        <<TROOP_CONTENTS[((i - 1) % Len(TROOP_CONTENTS)) + 1],
          TROOP_SUITS[((i - 1) \div Len(TROOP_CONTENTS)) + 1]>>]

\* The tactics deck: the keys of TACTICS, as pairs of characters
TacticsDeck ==
    <<<<"A", "l">>, <<"C", "o">>, <<"D", "a">>, <<"D", "e">>, <<"F", "o">>,
      <<"M", "u">>, <<"R", "e">>, <<"S", "c">>, <<"S", "h">>, <<"T", "r">>>>

\* Every troop card from the greatest string to the least
TroopCardsDescending ==
    [i \in 1 .. 60 |->
        <<CharOrder[10 - ((i - 1) \div 6)], CharOrder[16 - ((i - 1) % 6)]>>]

\* sorted(cards, reverse=True) of a list of distinct troop cards
SortedDescending(cards) ==
    SelectSeq(TroopCardsDescending, LAMBDA c : c \in Range(cards))

(***************************************************************************)
(* Formation classification                                                *)
(***************************************************************************)
\* Round.check_formation_components: <<straight, triple, flush>>
check_formation_components(cards, formationSize) ==
    LET l == Len(cards)
    IN  IF l > 1
        THEN LET values == SortedChars([i \in 1 .. l |-> cards[i][1]])
                 suits == [i \in 1 .. l |-> cards[i][2]]
                 spacing == [i \in 1 .. (l - 1) |-> int(values[i + 1]) - int(values[i])]
                 straight == SumSeq(spacing) <= formationSize - 1
                 triple == (~straight) /\ Count(spacing, 0) = l - 1
                 flush == Count(suits, suits[1]) = l
             IN  <<straight, triple, flush>>
        ELSE <<TRUE, TRUE, TRUE>>

\* Round.detect_formation (its assert 3 <= l <= 4 is detect_formation_ok);
\* check_formation_components is called with its default formationSize.
detect_formation_ok(cards) == 3 <= Len(cards) /\ Len(cards) <= 4

\* The if/elif chain of detect_formation over (straight, triple, flush)
fType(components) ==
    IF components[1] /\ components[3] THEN "straight flush"
    ELSE IF components[2] THEN "triple"
    ELSE IF components[3] THEN "flush"
    ELSE IF components[1] THEN "straight"
    ELSE "sum"

detect_formation(cards) ==
    [cards |-> cards,
     type |-> fType(check_formation_components(cards, 3)),
     strength |-> SumSeq([i \in 1 .. Len(cards) |-> int(cards[i][1])])]

(***************************************************************************)
(* A call's outcome: the value returned, or the exception raised           *)
(***************************************************************************)
Ret(v) == [exc |-> "none", val |-> v]
Raise(e) == [exc |-> e, val |-> <<>>]

\* detect_formation with its assertion
Detect(cards) ==
    IF detect_formation_ok(cards) THEN Ret(detect_formation(cards))
    ELSE Raise("AssertionError")

\* The least of a non-empty finite set of numbers
Least(S) == CHOOSE x \in S : \A y \in S : x <= y

\* The least index at which a sequence of booleans is TRUE, 0 when there is
\* none
FirstTrue(s) == Least({i \in DOMAIN s : s[i]} \cup {Len(s) + 1}) % (Len(s) + 1)

\* The numbers of a finite set, ascending and descending
AscendingSeq(S) ==
    [p \in 1 .. Cardinality(S) |->
        CHOOSE x \in S : Cardinality({y \in S : y < x}) = p - 1]
DescendingSeq(S) == ReverseSeq(AscendingSeq(S))

(***************************************************************************)
(* Best-continuation search                                                *)
(***************************************************************************)
\* Round.possible_straights: the value windows holding every played value,
\* each without the played values, strongest first.  list.remove raises on
\* the second removal of a value that two cards share.
possible_straights(cards, formationSize) ==
    LET minVal == int(TROOP_CONTENTS[1])
        maxVal == int(TROOP_CONTENTS[Len(TROOP_CONTENTS)])
        starts == minVal .. (maxVal - formationSize + 1)
        cardValues == [i \in 1 .. Len(cards) |-> int(cards[i][1])]
        window(i) == i .. (i + formationSize - 1)
        fits(i) == \A k \in DOMAIN cardValues : cardValues[k] \in window(i)
        repeated == \E j, k \in DOMAIN cardValues : j < k /\ cardValues[j] = cardValues[k]
        rest(i) == LET left == AscendingSeq(window(i) \ Range(cardValues))
                   IN  [k \in DOMAIN left |-> str(left[k])]
        fitting == DescendingSeq({i \in starts : fits(i)})
    IN  IF repeated /\ fitting # <<>>
        THEN Raise("ValueError")
        ELSE Ret([k \in DOMAIN fitting |-> rest(fitting[k])])

\* The first card of the pool with the value: the inner loop of the
\* straight block of best_case
FirstOfValue(pool, value) ==
    pool[Least({i \in DOMAIN pool : pool[i][1] = value})]

\* The blocks of best_case after possible_straights returned: the cards the
\* first block that succeeds adds to `cards`.  components is (straight,
\* triple, flush); the code unpacks cards[0] = value + suit into
\* (firstSuit, firstValue), in that order.
Continuation(cards, formationSize, pool, components, possibleStraights) ==
    LET firstSuit == cards[1][1]
        firstValue == cards[1][2]
        straight == components[1]
        triple == components[2]
        flush == components[3]
        nEmptySlots == formationSize - Len(cards)
        \* straight flush: the first window whose cards value + firstSuit are all left
        sfOk(s) == \A k \in DOMAIN s : <<s[k], firstSuit>> \in Range(pool)
        sf == FirstTrue([k \in DOMAIN possibleStraights |-> sfOk(possibleStraights[k])])
        \* triple: the cards left, in the pool's order, with card[0] == firstValue
        same == SelectSeq(pool, LAMBDA card : card[1] = firstValue)
        \* flush: value + firstSuit for the values from the highest down
        suited == SelectSeq([k \in 1 .. Len(TROOP_CONTENTS) |->
                                <<TROOP_CONTENTS[Len(TROOP_CONTENTS) + 1 - k], firstSuit>>],
                            LAMBDA card : card \in Range(pool))
        \* straight: the first window each of whose values some card left has
        stOk(s) == \A k \in DOMAIN s : \E i \in DOMAIN pool : pool[i][1] = s[k]
        st == FirstTrue([k \in DOMAIN possibleStraights |-> stOk(possibleStraights[k])])
    IN  IF straight /\ flush /\ sf # 0
        THEN [k \in DOMAIN possibleStraights[sf] |-> <<possibleStraights[sf][k], firstSuit>>]
        ELSE IF triple /\ Len(same) >= nEmptySlots
        THEN Take(same, nEmptySlots)
        ELSE IF flush /\ Len(suited) >= nEmptySlots
        THEN Take(suited, nEmptySlots)
        ELSE IF straight /\ st # 0
        THEN [k \in DOMAIN possibleStraights[st] |->
                 FirstOfValue(pool, possibleStraights[st][k])]
        ELSE Take(SortedDescending(pool), nEmptySlots)

\* best_case from possible_straights on: its exception, or the formation
\* detected
BestCaseSearch(cards, formationSize, pool, components, ps) ==
    IF ps.exc # "none" THEN ps
    ELSE Detect(cards \o Continuation(cards, formationSize, pool, components, ps.val))

\* best_case from check_formation_components on
BestCaseOf(cards, formationSize, pool, components) ==
    BestCaseSearch(cards, formationSize, pool, components,
                   IF components[1] THEN possible_straights(cards, formationSize)
                   ELSE Ret(<<>>))

\* Round.best_case(cards, formationSize) over self.cardsLeft['troop'] = pool
\* and self.best = selfBest
best_case(cards, formationSize, pool, selfBest) ==
    IF Len(cards) = formationSize THEN Raise("NameError")   \* detect_formation, unqualified
    ELSE IF cards = <<>> /\ formationSize = 3 THEN Ret(selfBest)
    ELSE IF cards = <<>> THEN Raise("IndexError")            \* cards[0]
    ELSE BestCaseOf(cards, formationSize, pool, check_formation_components(cards, 3))

\* best_case([card]) for each card of the sorted pool, in order
RECURSIVE BestCases(_, _, _)
BestCases(cardsLeftDesc, pool, selfBest) ==
    IF cardsLeftDesc = <<>> THEN <<>>
    ELSE <<best_case(<<Head(cardsLeftDesc)>>, 3, pool, selfBest)>>
         \o BestCases(Tail(cardsLeftDesc), pool, selfBest)

\* The passes of best_empty over cases[i] = best_case([cardsLeft[i]]), in
\* POKER_HIERARCHY order: the first pass meets every exception a later pass
\* could; the 'flush' pass keeps the first flush of the greatest strength;
\* the 'sum' pass calls best_case unqualified.
BestEmptyOf(cases) ==
    LET n == Len(cases)
        stop1 == FirstTrue([i \in 1 .. n |-> cases[i].exc # "none" \/ cases[i].val.type = POKER_HIERARCHY[1]])
        OfType(t) == FirstTrue([i \in 1 .. n |-> cases[i].val.type = t])
        flushes == {i \in 1 .. n : cases[i].val.type = POKER_HIERARCHY[3]}
        bestSoFar == CHOOSE i \in flushes :
                        /\ \A j \in flushes : cases[j].val.strength <= cases[i].val.strength
                        /\ \A j \in flushes : j < i => cases[j].val.strength < cases[i].val.strength
    IN  IF stop1 # 0 THEN cases[stop1]
        ELSE IF OfType(POKER_HIERARCHY[2]) # 0 THEN cases[OfType(POKER_HIERARCHY[2])]
        ELSE IF flushes # {} /\ cases[bestSoFar].val.strength > 0 THEN cases[bestSoFar]
        ELSE IF flushes # {} THEN cases[Least(flushes)]
        ELSE IF OfType(POKER_HIERARCHY[4]) # 0 THEN cases[OfType(POKER_HIERARCHY[4])]
        ELSE Raise("NameError")

\* Round.best_empty over self.cardsLeft['troop'] = pool and self.best
best_empty(pool, selfBest) ==
    BestEmptyOf(BestCases(SortedDescending(pool), pool, selfBest))

(***************************************************************************)
(* Flag adjudication                                                       *)
(***************************************************************************)
\* compare_formations looking at the strengths before the types
compare_strength_first(formations, turn) ==
    LET ranks == [p \in Players |-> IndexOf(POKER_HIERARCHY, formations[p].type)]
        strengths == [p \in Players |-> formations[p].strength]
    IN  IF strengths[0] # strengths[1]
        THEN (IF strengths[0] = Max2(strengths[0], strengths[1]) THEN 0 ELSE 1)
        ELSE IF ranks[0] # ranks[1]
        THEN (IF ranks[0] = Min2(ranks[0], ranks[1]) THEN 0 ELSE 1)
        ELSE 1 - turn

\* compare_formations breaking a tie for the current player
compare_tie_to_mover(formations, turn) ==
    LET ranks == [p \in Players |-> IndexOf(POKER_HIERARCHY, formations[p].type)]
        strengths == [p \in Players |-> formations[p].strength]
    IN  IF ranks[0] # ranks[1]
        THEN (IF ranks[0] = Min2(ranks[0], ranks[1]) THEN 0 ELSE 1)
        ELSE IF strengths[0] # strengths[1]
        THEN (IF strengths[0] = Max2(strengths[0], strengths[1]) THEN 0 ELSE 1)
        ELSE turn

\* compare_formations taking, where the strengths differ, the index of the
\* least rank once more
compare_ranks_twice(formations, turn) ==
    LET ranks == [p \in Players |-> IndexOf(POKER_HIERARCHY, formations[p].type)]
        strengths == [p \in Players |-> formations[p].strength]
    IN  IF ranks[0] # ranks[1]
        THEN (IF ranks[0] = Min2(ranks[0], ranks[1]) THEN 0 ELSE 1)
        ELSE IF strengths[0] # strengths[1]
        THEN (IF ranks[0] = Min2(ranks[0], ranks[1]) THEN 0 ELSE 1)
        ELSE 1 - turn

\* Round.compare_formations: formations[0], formations[1] and self.whoseTurn
compare_formations(formations, turn) ==
    LET ranks == [p \in Players |-> IndexOf(POKER_HIERARCHY, formations[p].type)]
        strengths == [p \in Players |-> formations[p].strength]
    IN  IF ranks[0] # ranks[1]
        THEN (IF ranks[0] = Min2(ranks[0], ranks[1]) THEN 0 ELSE 1)
        ELSE IF strengths[0] # strengths[1]
        THEN (IF strengths[0] = Max2(strengths[0], strengths[1]) THEN 0 ELSE 1)
        ELSE 1 - turn

\* What an exception-free call is followed by: the tuple assignment of
\* update_flag raises
ThenRaise(r, e) == IF r.exc # "none" THEN r ELSE Raise(e)

\* Round.update_flag.  flag['best'][player] is a formation dict, so `in`
\* looks justPlayed up among its keys; the assignment into the tuple
\* flag['best'] raises once best_case has returned.
update_flag(flag, justPlayed, pool, selfBest) ==
    LET hit(player) == CardStr(justPlayed) \in DOMAIN flag.best[player]
    IN  IF hit(0) \/ hit(1)
        THEN ThenRaise(best_case(flag.played[IF hit(0) THEN 0 ELSE 1], 3, pool, selfBest),
                       "TypeError")
        ELSE Ret(flag)

\* A formation with its strength in units of EPSILON
InEpsilons(f) == [f EXCEPT !.strength = @ * EPSILON_INV]

\* The defender's stand-in sized up from the cards it has placed alone,
\* without the continuation flag['best'] promises
PlacedOnly(flag, player) ==
    [p \in Players |->
        IF p = player
        THEN [cards |-> flag.played[p],
              type |-> POKER_HIERARCHY[Len(POKER_HIERARCHY)],
              strength |-> SumSeq([i \in DOMAIN flag.played[p] |-> int(flag.played[p][i][1])])
                           * EPSILON_INV - 1]
        ELSE InEpsilons(detect_formation(flag.played[p]))]

\* The formations check_flag compares when `player` is the defender: its
\* flag['best'] less EPSILON, and the attacker's formation as detected
Hypothetical(flag, player) ==
    [p \in Players |->
        IF p = player
        THEN [flag.best[p] EXCEPT !.strength = @ * EPSILON_INV - 1]
        ELSE InEpsilons(detect_formation(flag.played[p]))]

\* The body of check_flag for a flag without a winner
Adjudicate(flag, turn) ==
    LET formationSize == FORMATION_SIZE + (IF flag.mud THEN 1 ELSE 0)
        finishedPlayers == {p \in Players : Len(flag.played[p]) = formationSize}
    IN  IF Cardinality(finishedPlayers) = 2
        THEN [flag EXCEPT !.winner =
                 compare_formations([p \in Players |-> detect_formation(flag.played[p])],
                                    turn)]
        ELSE IF Cardinality(finishedPlayers) = 1
        THEN LET player == CHOOSE p \in Players : p \notin finishedPlayers
             IN  IF compare_formations(Hypothetical(flag, player), turn) = 1 - player
                 THEN [flag EXCEPT !.winner = 1 - player]
                 ELSE flag
        ELSE flag

\* check_flag adjudicating whatever the flag's winner is
check_flag_again(flag, turn) == Adjudicate(flag, turn)

\* Round.check_flag
check_flag(flag, turn) ==
    IF flag.winner = None THEN Adjudicate(flag, turn) ELSE flag

(***************************************************************************)
(* Round outcome                                                           *)
(***************************************************************************)
\* The streak loop of check_winner from flag i on
RECURSIVE StreakScan(_, _, _, _)
StreakScan(flagOutcomes, i, streakHolder, breakthroughStreak) ==
    IF i > N_FLAGS - 1 THEN None
    ELSE IF flagOutcomes[i] # None
    THEN IF flagOutcomes[i] = streakHolder
         THEN IF breakthroughStreak + 1 = BREAKTHROUGH_WIN
              THEN streakHolder
              ELSE StreakScan(flagOutcomes, i + 1, streakHolder, breakthroughStreak + 1)
         ELSE StreakScan(flagOutcomes, i + 1, flagOutcomes[i], 1)
    ELSE StreakScan(flagOutcomes, i + 1, streakHolder, breakthroughStreak)

\* check_winner scanning for a streak before it counts the flags
check_winner_streak_first(fl) ==
    LET flagOutcomes == [i \in FlagIds |-> fl[i].winner]
        wins(player) == Cardinality({i \in FlagIds : flagOutcomes[i] = player})
        streak == StreakScan(flagOutcomes, 0, None, 0)
    IN  IF streak # None THEN streak
        ELSE IF wins(0) >= STANDARD_WIN THEN 0
        ELSE IF wins(1) >= STANDARD_WIN THEN 1
        ELSE None

\* Round.check_winner over self.flags
check_winner(fl) ==
    LET flagOutcomes == [i \in FlagIds |-> fl[i].winner]
        wins(player) == Cardinality({i \in FlagIds : flagOutcomes[i] = player})
    IN  IF wins(0) >= STANDARD_WIN THEN 0
        ELSE IF wins(1) >= STANDARD_WIN THEN 1
        ELSE StreakScan(flagOutcomes, 0, None, 0)

(***************************************************************************)
(* Construction and dealing                                                *)
(***************************************************************************)
\* Round.__init__: Red 7, 8, 9
initialBest ==
    detect_formation([i \in 1 .. 3 |->
        <<TROOP_CONTENTS[Len(TROOP_CONTENTS) - 3 + i], TROOP_SUITS[1]>>])

\* One flag as Round.__init__ builds it
NewFlag ==
    [played |-> [p \in Players |-> <<>>],
     best |-> [p \in Players |-> initialBest],
     fog |-> FALSE,
     mud |-> FALSE,
     winner |-> None]

\* Round.draw on a pile: the card popped and the pile left
draw(pile) == [card |-> pile[Len(pile)], pile |-> SubSeq(pile, 1, Len(pile) - 1)]

\* The hands and the troop pile after generate_decks_and_deal_hands dealt
\* HAND_SIZE cards to player 0 and then to player 1 from the shuffled pile
Dealt(troopDeck) ==
    LET n == Len(troopDeck)
    IN  [h |-> [p \in Players |->
                  [i \in 1 .. HAND_SIZE |-> troopDeck[n + 1 - (p * HAND_SIZE + i)]]],
         troop |-> SubSeq(troopDeck, 1, n - 2 * HAND_SIZE)]

(***************************************************************************)
(* Placement                                                               *)
(***************************************************************************)
\* Round.replace_card with Hand.drop and Hand.add: the hand and the piles
\* after it, and the exception it ended with
replace_card(card, hand, deckName) ==
    IF card \notin Range(hand)
    THEN [exc |-> "ValueError", hand |-> hand, decks |-> decks]      \* hand.drop
    ELSE IF decks[deckName] # <<>>
    THEN [exc |-> "none",
          hand |-> Append(RemoveFirst(hand, card), draw(decks[deckName]).card),
          decks |-> [decks EXCEPT ![deckName] = draw(@).pile]]
    ELSE IF decks["tactics"] # <<>>
    THEN [exc |-> "none",
          hand |-> Append(RemoveFirst(hand, card), draw(decks["tactics"]).card),
          decks |-> [decks EXCEPT !["tactics"] = draw(@).pile]]
    ELSE [exc |-> "IndexError", hand |-> RemoveFirst(hand, card), decks |-> decks]

\* The round's fields as they stand
Fields ==
    [h |-> h, decks |-> decks, cardsLeft |-> cardsLeft, flags |-> flags,
     best |-> best, err |-> "none"]

\* The end of get_play's legal branch without the removal from cardsLeft
AfterReplaceUnremoved(card, placed, be) ==
    IF be.exc # "none" THEN [placed EXCEPT !.err = be.exc]
    ELSE [placed EXCEPT !.best = be.val]

\* The end of get_play's legal branch, from `if card in self.best['cards']`
\* on: placed holds the fields after replace_card, be is best_empty's outcome
\* (self.best itself when the card is none of its cards)
AfterReplace(card, placed, be) ==
    IF be.exc # "none" THEN [placed EXCEPT !.err = be.exc]
    ELSE IF card \notin Range(cardsLeft["troop"])
    THEN [placed EXCEPT !.best = be.val, !.err = "ValueError"]    \* list.remove
    ELSE [placed EXCEPT !.best = be.val, !.cardsLeft["troop"] = RemoveFirst(@, card)]

\* get_play's legal branch: the append, then replace_card's outcome rc
Placement(card, target, rc) ==
    IF rc.exc # "none"
    THEN [Fields EXCEPT !.flags[target].played[whoseTurn] = Append(@, card),
                        !.h[whoseTurn] = rc.hand,
                        !.decks = rc.decks,
                        !.err = rc.exc]
    ELSE AfterReplace(card,
                      [Fields EXCEPT !.flags[target].played[whoseTurn] = Append(@, card),
                                     !.h[whoseTurn] = rc.hand,
                                     !.decks = rc.decks],
                      IF card \in Range(best.cards)
                      THEN best_empty(cardsLeft["troop"], best)
                      ELSE Ret(best))

\* get_play placing the card whatever the flag already holds
get_play_uncapped(card, target, deckName) ==
    IF CardStr(card) \in Range(TACTICS) THEN Fields
    ELSE Placement(card, target, replace_card(card, h[whoseTurn], deckName))

\* Round.get_play once p.play returned (card, target, deckName) with a card:
\* the round's fields after it, and the exception it ended with.  An
\* exception leaves the assignments made before it in place.
get_play(card, target, deckName) ==
    LET me == whoseTurn
        flag == flags[target]
        formationSize == FORMATION_SIZE + (IF flag.mud THEN 1 ELSE 0)
    IN  IF CardStr(card) \in Range(TACTICS) THEN Fields
        ELSE IF Len(flag.played[me]) < formationSize
        THEN Placement(card, target, replace_card(card, h[me], deckName))
        ELSE Fields

(***************************************************************************)
(* The play sources and the rounds played                                  *)
(***************************************************************************)
\* The longest plan a player follows, and the passes a round may hold
PlanLen == 7
MaxPasses == 2

Card(v, s) == <<str(v), s>>
Move(v, s, target) == [card |-> Card(v, s), target |-> target, deckName |-> "troop"]
MoveFrom(v, s, target, deckName) ==
    [card |-> Card(v, s), target |-> target, deckName |-> deckName]

\* A shuffle of the troop deck that deals `top` out first, in that order
Stacked(top) ==
    SelectSeq(TroopDeck, LAMBDA c : c \notin Range(top)) \o ReverseSeq(top)

\* Both players build 7-8-9 of one suit at flag 0
Duel ==
    [hands |-> <<Card(7, "r"), Card(8, "r"), Card(9, "r"), Card(1, "g"),
                 Card(3, "b"), Card(0, "p"), Card(2, "y"),
                 Card(7, "o"), Card(8, "o"), Card(9, "o"), Card(1, "b"),
                 Card(3, "g"), Card(0, "y"), Card(2, "p")>>,
     plan |-> [p \in Players |->
        IF p = 0
        THEN <<Move(7, "r", 0), Move(8, "r", 0), Move(9, "r", 0),
               Move(1, "g", 0), Move(3, "b", 4), Move(0, "p", 4), Move(2, "y", 4)>>
        ELSE <<Move(7, "o", 0), Move(8, "o", 0), Move(9, "o", 0),
               Move(1, "b", 0), Move(3, "g", 4), Move(0, "y", 4), Move(2, "p", 4)>>]]

\* Flag 1: the flush 2-4-9 of player 0 against the stronger straight 5-6-7;
\* then each player offers a fourth card there
Line ==
    [hands |-> <<Card(2, "r"), Card(4, "r"), Card(9, "r"), Card(0, "g"),
                 Card(1, "p"), Card(3, "p"), Card(5, "p"),
                 Card(5, "y"), Card(6, "g"), Card(7, "o"), Card(0, "b"),
                 Card(2, "p"), Card(4, "p"), Card(6, "p")>>,
     plan |-> [p \in Players |->
        IF p = 0
        THEN <<Move(2, "r", 1), Move(4, "r", 1), Move(9, "r", 1), Move(0, "g", 1)>>
        ELSE <<Move(5, "y", 1), Move(6, "g", 1), Move(7, "o", 1), Move(0, "b", 1)>>]]

\* Flags 2 and 3: straights of the same strength on both sides; player 1
\* completes flag 2 after player 0, player 0 completes flag 3 after player 1
Tie ==
    [hands |-> <<Card(4, "b"), Card(5, "o"), Card(6, "y"), Card(1, "r"),
                 Card(2, "o"), Card(3, "y"), Card(0, "g"),
                 Card(1, "o"), Card(2, "y"), Card(3, "g"), Card(4, "p"),
                 Card(5, "r"), Card(6, "b"), Card(0, "b")>>,
     plan |-> [p \in Players |->
        IF p = 0
        THEN <<Move(4, "b", 2), Move(5, "o", 2), Move(6, "y", 2),
               Move(1, "r", 3), Move(2, "o", 3), Move(3, "y", 3)>>
        ELSE <<Move(1, "o", 3), Move(2, "y", 3), Move(3, "g", 3),
               Move(4, "p", 2), Move(5, "r", 2), Move(6, "b", 2)>>]]

\* Every 8 and 9 and the red 7 are placed: the nines of player 0 at flag 0
\* against the red 8 alone
Siege ==
    [hands |-> <<Card(9, "g"), Card(9, "b"), Card(9, "p"), Card(9, "r"),
                 Card(9, "o"), Card(9, "y"), Card(0, "r"),
                 Card(8, "o"), Card(8, "y"), Card(8, "g"), Card(8, "b"),
                 Card(8, "p"), Card(7, "r"), Card(8, "r")>>,
     plan |-> [p \in Players |->
        IF p = 0
        THEN <<Move(9, "g", 1), Move(9, "b", 1), Move(9, "p", 1),
               Move(9, "r", 0), Move(9, "o", 0), Move(9, "y", 0), Move(0, "r", 2)>>
        ELSE <<Move(8, "o", 1), Move(8, "y", 1), Move(8, "g", 1),
               Move(8, "b", 2), Move(8, "p", 2), Move(7, "r", 2), Move(8, "r", 0)>>]]

\* Each player places a card of its hand at flag 7, then names a card it
\* does not hold: player 0 a card of the draw pile, player 1 a card of
\* player 0's hand
Bluff ==
    [hands |-> <<Card(2, "r"), Card(4, "o"), Card(6, "y"), Card(0, "g"),
                 Card(1, "p"), Card(3, "p"), Card(5, "p"),
                 Card(3, "o"), Card(5, "y"), Card(7, "g"), Card(0, "b"),
                 Card(2, "p"), Card(4, "p"), Card(6, "p")>>,
     plan |-> [p \in Players |->
        IF p = 0
        THEN <<Move(2, "r", 7), Move(9, "b", 7)>>
        ELSE <<Move(3, "o", 7), Move(4, "o", 8)>>]]

\* Every placement draws from the tactics deck, which holds ten cards
Drought ==
    [hands |-> <<Card(1, "r"), Card(3, "o"), Card(5, "y"), Card(2, "g"),
                 Card(4, "b"), Card(6, "p"), Card(0, "r"),
                 Card(1, "o"), Card(3, "y"), Card(5, "g"), Card(2, "b"),
                 Card(4, "p"), Card(6, "r"), Card(0, "o")>>,
     plan |-> [p \in Players |->
        IF p = 0
        THEN <<MoveFrom(1, "r", 5, "tactics"), MoveFrom(3, "o", 5, "tactics"),
               MoveFrom(5, "y", 5, "tactics"), MoveFrom(2, "g", 6, "tactics"),
               MoveFrom(4, "b", 6, "tactics"), MoveFrom(6, "p", 6, "tactics")>>
        ELSE <<MoveFrom(1, "o", 5, "tactics"), MoveFrom(3, "y", 5, "tactics"),
               MoveFrom(5, "g", 5, "tactics"), MoveFrom(2, "b", 6, "tactics"),
               MoveFrom(4, "p", 6, "tactics")>>]]

Rounds == {Duel, Line, Tie, Siege, Bluff, Drought}

NoPlay == [card |-> <<"", "">>, target |-> 0, deckName |-> "troop"]
NoProbe == [fn |-> "", arg |-> <<>>, out |-> <<>>]

\* Round.__init__ followed by generate_decks_and_deal_hands
Init ==
    \E r \in Rounds :
        /\ h = Dealt(Stacked(r.hands)).h
        /\ decks = [troop |-> Dealt(Stacked(r.hands)).troop, tactics |-> TacticsDeck]
        /\ cardsLeft = [troop |-> TroopDeck, tactics |-> TacticsDeck]
        /\ flags = [f \in FlagIds |-> NewFlag]
        /\ best = initialBest
        /\ whoseTurn = 0
        /\ winner = None
        /\ err = "none"
        /\ pc = "play"
        /\ lastPlay = NoPlay
        /\ plan = [p \in Players |-> [passes |-> 0, moves |-> Take(r.plan[p], PlanLen)]]
        /\ probe = NoProbe

Running == err = "none" /\ winner = None

\* get_play when p.play returns no card: 'pass'; the turn goes over
Pass ==
    /\ Running /\ pc = "play"
    /\ plan[0].passes + plan[1].passes < MaxPasses
    /\ plan' = [plan EXCEPT ![whoseTurn].passes = @ + 1]
    /\ whoseTurn' = 1 - whoseTurn
    /\ UNCHANGED <<h, decks, cardsLeft, flags, best, winner, err, pc, lastPlay, probe>>

\* get_play when p.play returns the next play of the player's plan
GetPlay ==
    /\ Running /\ pc = "play"
    /\ plan[whoseTurn].moves # <<>>
    /\ \E move \in {Head(plan[whoseTurn].moves)} :
         \E r \in {get_play(move.card, move.target, move.deckName)} :
           /\ h' = r.h
           /\ decks' = r.decks
           /\ cardsLeft' = r.cardsLeft
           /\ flags' = r.flags
           /\ best' = r.best
           /\ err' = r.err
           /\ lastPlay' = move
           /\ pc' = IF r.err = "none" THEN "update" ELSE pc
    /\ plan' = [plan EXCEPT ![whoseTurn].moves = Tail(@)]
    /\ UNCHANGED <<whoseTurn, winner, probe>>

\* update_flag on the flag just played at
UpdateFlag ==
    /\ Running /\ pc = "update"
    /\ \E r \in {update_flag(flags[lastPlay.target], lastPlay.card, cardsLeft["troop"], best)} :
           /\ err' = r.exc
           /\ pc' = IF r.exc = "none" THEN "check" ELSE pc
    /\ UNCHANGED <<h, decks, cardsLeft, flags, best, whoseTurn, winner, lastPlay, plan, probe>>

\* check_flag on the flag just played at
CheckFlag ==
    /\ Running /\ pc = "check"
    /\ flags' = [flags EXCEPT ![lastPlay.target] = check_flag(@, whoseTurn)]
    /\ pc' = "outcome"
    /\ UNCHANGED <<h, decks, cardsLeft, best, whoseTurn, winner, err, lastPlay, plan, probe>>

\* check_winner, and the turn goes over
CheckWinner ==
    /\ Running /\ pc = "outcome"
    /\ winner' = check_winner(flags)
    /\ whoseTurn' = 1 - whoseTurn
    /\ pc' = "play"
    /\ UNCHANGED <<h, decks, cardsLeft, flags, best, err, lastPlay, plan, probe>>

Next == Pass \/ GetPlay \/ UpdateFlag \/ CheckFlag \/ CheckWinner

Spec == Init /\ [][Next]_vars

(***************************************************************************)
(* check_winner applied to a board of flag outcomes                        *)
(***************************************************************************)
\* A round before dealing: nothing held, nothing placed
Bare ==
    /\ h = [p \in Players |-> <<>>]
    /\ decks = [troop |-> <<>>, tactics |-> <<>>]
    /\ cardsLeft = [troop |-> <<>>, tactics |-> <<>>]
    /\ best = initialBest
    /\ whoseTurn = 0
    /\ err = "none"
    /\ lastPlay = NoPlay
    /\ plan = [p \in Players |-> [passes |-> 0, moves |-> <<>>]]

InitOutcome ==
    /\ Bare
    /\ \E o \in [FlagIds -> {None} \cup Players] :
          flags = [f \in FlagIds |-> [NewFlag EXCEPT !.winner = o[f]]]
    /\ winner = None
    /\ pc = "board"
    /\ probe = NoProbe

ScoreBoard ==
    /\ pc = "board"
    /\ winner' = check_winner(flags)
    /\ pc' = "scored"
    /\ UNCHANGED <<h, decks, cardsLeft, flags, best, whoseTurn, err, lastPlay, plan, probe>>

NextOutcome == ScoreBoard

SpecOutcome == InitOutcome /\ [][NextOutcome]_vars

(***************************************************************************)
(* detect_formation applied to groupings of three and four cards           *)
(***************************************************************************)
\* The suits the groupings are drawn from
MaxSuits == 3

\* The cards of the first MaxSuits suits
GroupingDeck == Take(TroopDeck, Len(TROOP_CONTENTS) * Min2(MaxSuits, Len(TROOP_SUITS)))

\* The groupings of 3 and of 4 distinct cards, each in the deck's order
Groupings ==
    LET I == DOMAIN GroupingDeck
    IN  {[k \in 1 .. 3 |-> GroupingDeck[t[k]]] :
            t \in {u \in I \X I \X I : u[1] < u[2] /\ u[2] < u[3]}}
        \cup
        {[k \in 1 .. 4 |-> GroupingDeck[t[k]]] :
            t \in {u \in I \X I \X I \X I : u[1] < u[2] /\ u[2] < u[3] /\ u[3] < u[4]}}

InitFormation ==
    /\ Bare
    /\ flags = [f \in FlagIds |-> NewFlag]
    /\ winner = None
    /\ pc = "grouping"
    /\ \E g \in Groupings : probe = [fn |-> "", arg |-> g, out |-> <<>>]

Classify ==
    /\ pc = "grouping"
    /\ \E r \in {Detect(probe.arg)} :
          /\ probe' = [fn |-> "detect_formation", arg |-> probe.arg, out |-> r.val]
          /\ err' = r.exc
    /\ pc' = "classified"
    /\ UNCHANGED <<h, decks, cardsLeft, flags, best, whoseTurn, winner, lastPlay, plan>>

NextFormation == Classify

SpecFormation == InitFormation /\ [][NextFormation]_vars

(***************************************************************************)
(* compare_formations applied to two formations, in both orders            *)
(***************************************************************************)
\* The greatest strength of the formations compared
MaxStrength == 4

\* What compare_formations reads of a formation: its type and strength
Formations ==
    {[cards |-> <<>>, type |-> POKER_HIERARCHY[t], strength |-> s] :
        t \in DOMAIN POKER_HIERARCHY, s \in 0 .. MaxStrength}

Swapped(formations) == [p \in Players |-> formations[1 - p]]

InitCompare ==
    /\ Bare
    /\ flags = [f \in FlagIds |-> NewFlag]
    /\ winner = None
    /\ pc = "formations"
    /\ \E a, b \in Formations :
          probe = [fn |-> "", arg |-> [p \in Players |-> IF p = 0 THEN a ELSE b], out |-> <<>>]

\* compare_formations(arg) and compare_formations(arg swapped), for each
\* value of self.whoseTurn
Compare ==
    /\ pc = "formations"
    /\ probe' = [fn |-> "compare_formations",
                 arg |-> probe.arg,
                 out |-> [turn \in Players |->
                            <<compare_formations(probe.arg, turn),
                              compare_formations(Swapped(probe.arg), turn)>>]]
    /\ pc' = "compared"
    /\ UNCHANGED <<h, decks, cardsLeft, flags, best, whoseTurn, winner, err, lastPlay, plan>>

NextCompare == Compare

SpecCompare == InitCompare /\ [][NextCompare]_vars

(***************************************************************************)
(* best_case applied to a partial grouping over a pool                     *)
(***************************************************************************)
\* The partial groupings: one card, or two distinct cards in either order
Partials ==
    {<<GroupingDeck[i]>> : i \in DOMAIN GroupingDeck}
    \cup
    {<<GroupingDeck[t[1]], GroupingDeck[t[2]]>> :
        t \in {u \in (DOMAIN GroupingDeck) \X (DOMAIN GroupingDeck) : u[1] # u[2]}}

\* The deck less the cards of the set `gone`, in the deck's order
Without(gone) ==
    LET Left(c) == c \notin gone
    IN  SelectSeq(TroopDeck, Left)

\* cardsLeft['troop'] once the partial grouping has been placed: with no
\* other card placed, or with the first suit placed as well
Pools(partial) ==
    {Without(Range(partial) \cup spent) :
        spent \in {{}, {c \in Range(TroopDeck) : c[2] = TROOP_SUITS[1]}}}

InitBestCase ==
    /\ h = [p \in Players |-> <<>>]
    /\ decks = [troop |-> <<>>, tactics |-> <<>>]
    /\ best = initialBest
    /\ whoseTurn = 0
    /\ err = "none"
    /\ lastPlay = NoPlay
    /\ plan = [p \in Players |-> [passes |-> 0, moves |-> <<>>]]
    /\ flags = [f \in FlagIds |-> NewFlag]
    /\ winner = None
    /\ pc = "partial"
    /\ \E partial \in Partials :
          /\ probe = [fn |-> "", arg |-> partial, out |-> <<>>]
          /\ \E pool \in Pools(partial) : cardsLeft = [troop |-> pool, tactics |-> <<>>]

\* self.best_case(arg) over self.cardsLeft['troop']
BestCase ==
    /\ pc = "partial"
    /\ \E r \in {best_case(probe.arg, 3, cardsLeft["troop"], best)} :
          /\ probe' = [fn |-> "best_case", arg |-> probe.arg, out |-> r.val]
          /\ err' = r.exc
    /\ pc' = "searched"
    /\ UNCHANGED <<h, decks, cardsLeft, flags, best, whoseTurn, winner, lastPlay, plan>>

NextBestCase == BestCase

SpecBestCase == InitBestCase /\ [][NextBestCase]_vars

(***************************************************************************)
(* Properties of flag adjudication                                         *)
(***************************************************************************)
Rank(f) == IndexOf(POKER_HIERARCHY, f.type)

\* f strictly outranks g: a higher-priority type, or the same type and a
\* strictly greater strength
Outranks(f, g) ==
    \/ Rank(f) < Rank(g)
    \/ Rank(f) = Rank(g) /\ f.strength > g.strength

\* No completion of `cards` to FORMATION_SIZE cards with cards of the pool
\* is detected as a formation that strictly outranks `attack`
NoBetter(cards, pool, attack) ==
    \A i, j, k \in DOMAIN pool :
        (i < j /\ j < k) =>
            LET extra == <<pool[i], pool[j], pool[k]>>
            IN  \A n \in {FORMATION_SIZE - Len(cards)} :
                    (\/ n = 3
                     \/ n = 2 /\ k = j + 1
                     \/ n = 1 /\ k = j + 1 /\ j = i + 1)
                    => ~Outranks(detect_formation(cards \o Take(extra, n)), attack)

WinnerIsFixed ==
    [][\A f \in FlagIds :
          flags[f].winner # None => flags'[f].winner = flags[f].winner]_vars

\* check_flag has just run after the defender completed its formation at a
\* flag the attacker's 7-8-9 straight flush had won by proof
DefenderCompletedLater ==
    /\ pc = "outcome"
    /\ Len(flags[lastPlay.target].played[whoseTurn]) = FORMATION_SIZE
    /\ flags[lastPlay.target].played[whoseTurn][FORMATION_SIZE] = lastPlay.card
    /\ Len(flags[lastPlay.target].played[1 - whoseTurn]) = FORMATION_SIZE
    /\ detect_formation(flags[lastPlay.target].played[1 - whoseTurn]).type = POKER_HIERARCHY[1]
    /\ detect_formation(flags[lastPlay.target].played[1 - whoseTurn]).strength = initialBest.strength
    /\ flags[lastPlay.target].winner = 1 - whoseTurn

(***************************************************************************)
(* Where the troop cards are                                               *)
(***************************************************************************)
\* The cards placed at the flags from flag f on, as one sequence
RECURSIVE PlacedFrom(_)
PlacedFrom(f) ==
    IF f > N_FLAGS - 1 THEN <<>>
    ELSE flags[f].played[0] \o flags[f].played[1] \o PlacedFrom(f + 1)

\* Every troop card occurs once in all among held, placed and pool
HandFlagPool(held, placed, pool) ==
    \A c \in Range(TroopDeck) : Count(held, c) + Count(placed, c) + Count(pool, c) = 1

\* Every troop card is placed or in pool, every card held or in the pile is
\* in pool; with intact set, every card is once in all among placed and
\* pool, and once in all among held, pile and placed
PlacedOrLeft(held, pile, placed, pool, intact) ==
    \A c \in Range(TroopDeck) :
        /\ Count(placed, c) + Count(pool, c) >= 1
        /\ Count(pool, c) <= 1
        /\ Count(held, c) + Count(pile, c) <= Count(pool, c)
        /\ intact => /\ Count(placed, c) + Count(pool, c) = 1
                     /\ Count(held, c) + Count(pile, c) + Count(placed, c) = 1

Won(P) == {f \in FlagIds : flags[f].winner = P}

\* P has won BREAKTHROUGH_WIN flags at adjacent positions
Adjacent(P) ==
    \E i \in FlagIds :
        \A k \in 0 .. (BREAKTHROUGH_WIN - 1) : i + k \in Won(P)

Entitled(P) == Cardinality(Won(P)) >= STANDARD_WIN \/ Adjacent(P)

\* C4: check_winner returns P only if P has won STANDARD_WIN flags or
\* BREAKTHROUGH_WIN flags at adjacent positions, and returns P if P alone has.
WinnerIffEntitled ==
    pc = "scored" =>
        \A P \in Players :
            /\ winner = P => Entitled(P)
            /\ (Entitled(P) /\ ~Entitled(1 - P)) => winner = P

\* C5: on every board on which a player has won at least STANDARD_WIN flags,
\* resolved in full or not, check_winner returns that player.
MajorityWins ==
    pc = "scored" =>
        \A P \in Players : Cardinality(Won(P)) >= STANDARD_WIN => winner = P

\* A board with unresolved flags on which player 1 has the majority and
\* player 0 three adjacent flags, scored for player 1
MajorityOverStreak ==
    /\ pc = "scored"
    /\ Cardinality(Won(1)) >= STANDARD_WIN
    /\ Adjacent(0)
    /\ Won(None) # {}
    /\ winner = 1

(***************************************************************************)
(* Properties of detect_formation                                          *)
(***************************************************************************)
Values(cards) == {int(cards[i][1]) : i \in DOMAIN cards}
Suits(cards) == {cards[i][2] : i \in DOMAIN cards}

\* The structural predicates of the formation kinds
AllSameValue(cards) == Cardinality(Values(cards)) = 1
AllSameSuit(cards) == Cardinality(Suits(cards)) = 1
Consecutive(cards) ==
    /\ Cardinality(Values(cards)) = Len(cards)
    /\ \A v, w \in Values(cards) : v - w < Len(cards)

\* The highest-priority kind whose predicate holds
Kind(cards) ==
    IF Consecutive(cards) /\ AllSameSuit(cards) THEN "straight flush"
    ELSE IF AllSameValue(cards) THEN "triple"
    ELSE IF AllSameSuit(cards) THEN "flush"
    ELSE IF Consecutive(cards) THEN "straight"
    ELSE "sum"

\* C6: detect_formation returns the highest-priority kind whose structural
\* predicate holds for the grouping, and the sum of the card values as its
\* strength.
DetectsHighestKind ==
    pc = "classified" =>
        /\ err = "none"
        /\ probe.out.type = Kind(probe.arg)
        /\ probe.out.strength = SumSeq([i \in DOMAIN probe.arg |-> int(probe.arg[i][1])])

\* C7: three cards of one value v are detected as a 'triple' of strength 3v.
SameValueIsTriple ==
    (pc = "classified" /\ Len(probe.arg) = 3 /\ AllSameValue(probe.arg)) =>
        /\ probe.out.type = "triple"
        /\ probe.out.strength = 3 * int(probe.arg[1][1])

\* The sum of the gaps between the sorted values: the greatest value minus
\* the least
GapSum(cards) ==
    CHOOSE d \in 0 .. 10 :
        \E v, w \in Values(cards) :
            /\ d = v - w
            /\ \A x \in Values(cards) : w <= x /\ x <= v

\* C18: detect_formation treats a complete grouping of n cards (3, or 4 under
\* mud) as a straight, or as a straight flush when same-suited, exactly when
\* the sum of the gaps between its sorted values is at most n - 1.
StraightRelativeToSize ==
    pc = "classified" =>
        (probe.out.type \in {"straight flush", "straight"}
            <=> GapSum(probe.arg) <= Len(probe.arg) - 1)

(***************************************************************************)
(* Properties of the placement cascade                                     *)
(***************************************************************************)
\* No two cards of the pool complete `cards` to a triple or a straight flush
NoTripleNoStraightFlush(cards, pool) ==
    \A i, j \in DOMAIN pool :
        i < j => Kind(cards \o <<pool[i], pool[j]>>) \notin {"straight flush", "triple"}

\* The attacker a holds three 9s at flag f against a single 8, and
\* cardsLeft['troop'] has no 8 and no 9 and no triple or straight flush for
\* the defender
Besieged(f, a) ==
    /\ Len(flags[f].played[a]) = 3
    /\ Values(flags[f].played[a]) = {9}
    /\ Len(flags[f].played[1 - a]) = 1
    /\ Values(flags[f].played[1 - a]) = {8}
    /\ Values(cardsLeft["troop"]) \cap {8, 9} = {}
    /\ NoTripleNoStraightFlush(flags[f].played[1 - a], cardsLeft["troop"])

\* C8: once update_flag and check_flag have run on a flag so besieged, the
\* flag's winner is the attacker.
SiegeResolves ==
    \A a \in Players :
        (pc = "outcome" /\ Besieged(lastPlay.target, a))
            => flags[lastPlay.target].winner = a

\* Both players have placed FORMATION_SIZE cards at flag f
BothComplete(f) == \A p \in Players : Len(flags[f].played[p]) = FORMATION_SIZE

Formation(f, p) == detect_formation(flags[f].played[p])

\* C9: a check_flag step on an unresolved flag at which both players have
\* placed FORMATION_SIZE cards gives it a winner: the player of the
\* higher-priority type when the types differ, the player of the greater
\* strength when only the strengths differ.
KindBeforeStrength ==
    [][\A f \in FlagIds : \A p \in Players :
          (/\ pc = "check" /\ lastPlay.target = f
           /\ flags[f].winner = None /\ BothComplete(f))
          => /\ flags'[f].winner \in Players
             /\ Rank(Formation(f, p)) < Rank(Formation(f, 1 - p))
                    => flags'[f].winner = p
             /\ (/\ Rank(Formation(f, p)) = Rank(Formation(f, 1 - p))
                 /\ Formation(f, p).strength > Formation(f, 1 - p).strength)
                    => flags'[f].winner = p]_vars

\* The second formation at a flag has just been completed and check_flag has
\* run: the flush has won against a straight that is stronger
FlushBeatStraight ==
    /\ pc = "outcome"
    /\ BothComplete(lastPlay.target)
    /\ flags[lastPlay.target].played[whoseTurn][FORMATION_SIZE] = lastPlay.card
    /\ \E p \in Players :
          /\ Formation(lastPlay.target, p).type = "flush"
          /\ Formation(lastPlay.target, 1 - p).type = "straight"
          /\ Formation(lastPlay.target, 1 - p).strength > Formation(lastPlay.target, p).strength
          /\ flags[lastPlay.target].winner = p

\* The formations at flag f are of one type and one strength
Tied(f) ==
    /\ BothComplete(f)
    /\ Formation(f, 0).type = Formation(f, 1).type
    /\ Formation(f, 0).strength = Formation(f, 1).strength

\* C10: a check_flag step on an unresolved flag where both formations tie
\* runs with whoseTurn the player of the most recent placement there, and
\* gives the flag to the other player.
TieGoesToNonMover ==
    [][\A f \in FlagIds :
          (/\ pc = "check" /\ lastPlay.target = f
           /\ flags[f].winner = None /\ Tied(f))
          => /\ flags[f].played[whoseTurn][FORMATION_SIZE] = lastPlay.card
             /\ flags'[f].winner = 1 - whoseTurn]_vars

\* Two tied flags, one completed last by player 1 and won by player 0, one
\* completed last by player 0 and won by player 1
TiedBothWays ==
    \E f, g \in FlagIds :
        /\ Tied(f) /\ flags[f].winner = 0
        /\ Tied(g) /\ flags[g].winner = 1

(***************************************************************************)
(* Properties of compare_formations                                        *)
(***************************************************************************)
Differ(formations) ==
    \/ formations[0].type # formations[1].type
    \/ formations[0].strength # formations[1].strength

\* C11: for formations that differ in type or in strength, swapping the
\* arguments of compare_formations swaps the index it returns, whatever
\* whoseTurn is, and the result does not depend on whoseTurn.
SwapSwapsWinner ==
    (pc = "compared" /\ Differ(probe.arg)) =>
        /\ \A turn \in Players : probe.out[turn][1] = 1 - probe.out[turn][2]
        /\ probe.out[0] = probe.out[1]

\* Compared both ways: a weaker formation of a higher-priority type first
\* wins as argument 0 and, swapped, as argument 1
ComparedBothWays ==
    /\ pc = "compared"
    /\ Rank(probe.arg[0]) < Rank(probe.arg[1])
    /\ probe.arg[0].strength < probe.arg[1].strength
    /\ probe.out[0] = <<0, 1>>
    /\ probe.out[1] = <<0, 1>>

(***************************************************************************)
(* Properties of get_play                                                  *)
(***************************************************************************)
\* The step is a get_play call with the next play of the mover's plan
Playing == pc = "play" /\ plan'[whoseTurn].moves # plan[whoseTurn].moves

TheMove == Head(plan[whoseTurn].moves)

\* The capacity of flag f
Capacity(f) == FORMATION_SIZE + (IF flags[f].mud THEN 1 ELSE 0)

\* The flag named has room for the mover, who holds the card named
Legal(move) ==
    /\ move.card \in Range(h[whoseTurn])
    /\ Len(flags[move.target].played[whoseTurn]) < Capacity(move.target)

\* C12: a legal placement of card c at flag f by player P removes exactly c
\* from cardsLeft['troop'] and appends exactly c to P's sequence at f; the
\* opponent's sequence at f, the sequences at the other flags, every flag's
\* winner and the opponent's hand stay as they are.
PlacementFrame ==
    [][(Playing /\ Legal(TheMove)) =>
          /\ cardsLeft'["troop"] = RemoveFirst(cardsLeft["troop"], TheMove.card)
          /\ flags'[TheMove.target].played[whoseTurn]
                = Append(flags[TheMove.target].played[whoseTurn], TheMove.card)
          /\ flags'[TheMove.target].played[1 - whoseTurn]
                = flags[TheMove.target].played[1 - whoseTurn]
          /\ \A f \in FlagIds \ {TheMove.target} : flags'[f].played = flags[f].played
          /\ \A f \in FlagIds : flags'[f].winner = flags[f].winner
          /\ h'[1 - whoseTurn] = h[1 - whoseTurn]]_vars

\* C13: a get_play call whose flag is full for the mover, or whose card the
\* mover does not hold, leaves hands, decks, cardsLeft, the flags and the
\* baseline as they were.
IllegalIsRejected ==
    [][(Playing /\ ~Legal(TheMove)) => UNCHANGED <<h, decks, cardsLeft, flags, best>>]_vars

\* C14: a get_play call that names a flag whose winner is set appends
\* nothing to either sequence of that flag.
ResolvedIsClosed ==
    [][(Playing /\ flags[TheMove.target].winner # None) =>
          flags'[TheMove.target].played = flags[TheMove.target].played]_vars

\* No sequence of placed cards is longer than its flag's capacity
WithinCapacity ==
    \A f \in FlagIds : \A p \in Players : Len(flags[f].played[p]) <= Capacity(f)

\* C19: every placed sequence holds at most FORMATION_SIZE cards (one more
\* under mud) in every state, and a get_play call that names a flag full for
\* the mover adds nothing to it.
FlagCapacity ==
    /\ WithinCapacity
    /\ [][/\ WithinCapacity'
          /\ (Playing /\ Len(flags[TheMove.target].played[whoseTurn]) >= Capacity(TheMove.target))
                => flags'[TheMove.target].played = flags[TheMove.target].played]_vars

\* get_play has returned from a call that named a flag full for the mover:
\* the card named is not at the flag
FullFlagRefused ==
    /\ pc = "update"
    /\ Len(flags[lastPlay.target].played[whoseTurn]) = Capacity(lastPlay.target)
    /\ lastPlay.card \notin Range(flags[lastPlay.target].played[whoseTurn])
    /\ lastPlay.card \in Range(h[whoseTurn])

\* The pile a replacement is drawn from when deckName is named
Source(deckName) == IF decks[deckName] # <<>> THEN deckName ELSE "tactics"

\* C20: every legal placement completes without an exception and leaves the
\* mover HAND_SIZE cards: the card placed is dropped and the top card of the
\* named pile, or of the tactics pile when the named one is empty, is added.
HandIsRefilled ==
    [][(Playing /\ Legal(TheMove)) =>
          /\ err' = "none"
          /\ Len(h'[whoseTurn]) = HAND_SIZE
          /\ h'[whoseTurn] = Append(RemoveFirst(h[whoseTurn], TheMove.card),
                                    draw(decks[Source(TheMove.deckName)]).card)
          /\ decks'[Source(TheMove.deckName)] = draw(decks[Source(TheMove.deckName)]).pile]_vars

(***************************************************************************)
(* Properties of the cached continuations                                  *)
(***************************************************************************)
\* The card just placed is among the cards of the best continuation cached
\* for side p of flag f
Listed(f, p) == lastPlay.card \in Range(flags[f].best[p].cards)

\* C16: after update_flag(flag, c) has run for the card c just placed, every
\* side of the flag whose cached best continuation listed c has it replaced by
\* best_case of the side's placed cards over the current pool, so the
\* continuation cached for the side that did not place c does not contain c,
\* and a side whose cached continuation did not list c keeps it.
CacheInvalidated ==
    [][pc = "update" =>
          \A p \in Players :
              /\ p # whoseTurn =>
                     lastPlay.card \notin Range(flags'[lastPlay.target].best[p].cards)
              /\ Listed(lastPlay.target, p) =>
                     \E r \in {best_case(flags[lastPlay.target].played[p], 3,
                                         cardsLeft["troop"], best)} :
                         /\ r.exc = "none"
                         /\ err' = "none"
                         /\ flags'[lastPlay.target].best[p] = r.val
              /\ ~Listed(lastPlay.target, p) =>
                     flags'[lastPlay.target].best[p] = flags[lastPlay.target].best[p]]_vars

\* C17: after every completed legal placement the baseline self.best contains
\* no card placed at a flag; when the card placed was one of the baseline's
\* cards, the new baseline is made of cards of cardsLeft['troop'] as left by
\* the removal, and no three cards left there are detected as a formation
\* that outranks it.
BaselineIsFresh ==
    [][(Playing /\ Legal(TheMove) /\ err' = "none") =>
          /\ \A f \in FlagIds : \A p \in Players :
                 Range(flags'[f].played[p]) \cap Range(best'.cards) = {}
          /\ TheMove.card \in Range(best.cards) =>
                 /\ Range(best'.cards) \subseteq Range(cardsLeft'["troop"])
                 /\ NoBetter(<<>>, cardsLeft'["troop"], best')]_vars

(***************************************************************************)
(* Properties of best_case                                                 *)
(***************************************************************************)
\* C15: for a partial grouping of one or two cards and a pool disjoint from
\* it, best_case returns a formation made of the partial cards followed by
\* cards of the pool, and no completion of the partial cards with cards of
\* the pool is detected as a formation that outranks it.
BestCaseIsOptimal ==
    pc = "searched" =>
        /\ err = "none"
        /\ Len(probe.out.cards) = FORMATION_SIZE
        /\ Take(probe.out.cards, Len(probe.arg)) = probe.arg
        /\ \A i \in DOMAIN probe.out.cards :
               i > Len(probe.arg) => probe.out.cards[i] \in Range(cardsLeft["troop"])
        /\ NoBetter(probe.arg, cardsLeft["troop"], probe.out)
====
